---- MODULE Spec2Model ----
(***************************************************************************)
(* Model of src/main.py ("Creator Transcript Fetcher"): the language       *)
(* normalisation, the discovery-first caption attempts, the /transcript    *)
(* handler and the expiring in-memory file store behind /file/{token}.     *)
(*                                                                         *)
(* Four specifications share the variables below:                          *)
(*   SpecNorm   normalize_langs applied to bounded inputs                  *)
(*   Spec       one /transcript (and /debug/subs) request, step by step    *)
(*   SpecStore  the file store under sequences of whole operations         *)
(*   SpecConc   the file store under thread interleaving (FastAPI runs     *)
(*              the synchronous handlers on a thread pool)                 *)
(***************************************************************************)
EXTENDS Integers, Sequences, FiniteSets, TLC

VARIABLES
    pc,                 \* position of the single request of SpecNorm / Spec / SpecStore
    user_langs,         \* req.langs, as the pieces between its commas
    ordered,            \* value returned by normalize_langs
    subtitles,          \* metadata "subtitles": language -> state of its tracks
    automatic_captions, \* metadata "automatic_captions": language -> state of its tracks
    manual_langs,       \* discover_caption_langs()[0]
    auto_langs,         \* discover_caption_langs()[1]
    attempt_log,        \* attempt_log["attempts"]
    outcomes,           \* value returned by each _run_attempt call, in call order
    workdir,            \* the *.srt files of the request's temporary directory
    srt_path,           \* try_subs_with_discovery()[0]
    captions_lang,
    captions_kind,
    meta_ok,            \* whether get_meta_with_ytdlp obtained metadata
    pdf_bytes,
    status,             \* HTTP status of the request (0: not answered yet)
    detail,             \* HTTPException detail of /transcript
    result,             \* success body of /transcript
    debug_resp,         \* body returned by /debug/subs
    FILE_STORE,         \* token -> {content, mime, filename, exp}
    issued,             \* tokens os.urandom has produced so far
    now,                \* the clock read by _now()
    registered,         \* history: token -> what _store_file was called with, and when
    resp,               \* history: the last answer of get_file
    tpc,                \* SpecConc: position of each thread
    tloc                \* SpecConc: locals of each thread

vars == << pc, user_langs, ordered, subtitles, automatic_captions, manual_langs,
           auto_langs, attempt_log, outcomes, workdir, srt_path, captions_lang,
           captions_kind, meta_ok, pdf_bytes, status, detail, result, debug_resp,
           FILE_STORE, issued, now, registered, resp, tpc, tloc >>

normVars == << user_langs, ordered >>
reqVars == << subtitles, automatic_captions, manual_langs, auto_langs, attempt_log,
              outcomes, workdir, srt_path, captions_lang, captions_kind, meta_ok,
              pdf_bytes, status, detail, result, debug_resp >>
storeVars == << FILE_STORE, issued, now >>
histVars == << registered, resp >>
concVars == << tpc, tloc >>

(***************************************************************************)
(* Bounds                                                                  *)
(***************************************************************************)
MaxParts == 3
NumTokens == 3
MaxTime == 4
MaxFiles == 2
NThreads == 2

(***************************************************************************)
(* Strings.  TLC strings are atomic, so str.strip and str.lower are the    *)
(* tables of their values on the tokens the model uses.                    *)
(***************************************************************************)
Strip(p) ==
    CASE p = " " -> ""
      [] p = " en" -> "en"
      [] p = " all " -> "all"
      [] OTHER -> p

Lower(p) ==
    CASE p = "EN" -> "en"
      [] p = "All" -> "all"
      [] p = "en-US" -> "en-us"
      [] p = "en-GB" -> "en-gb"
      [] p = "nl-NL" -> "nl-nl"
      [] p = "fr-FR" -> "fr-fr"
      [] p = "de-DE" -> "de-de"
      [] p = "es-ES" -> "es-es"
      [] OTHER -> p

Range(s) == { s[i] : i \in 1..Len(s) }

StripAll(s) == [ i \in 1..Len(s) |-> Strip(s[i]) ]

LowerAll(s) == [ i \in 1..Len(s) |-> Lower(s[i]) ]

NonEmpty(p) == p # ""

\* user_langs.split(","): the string is empty exactly when its only piece is ""
SplitParts(s) == SelectSeq(StripAll(s), NonEmpty)

DEFAULT_NORMALIZED == << "en", "en-US", "en-GB", "all" >>

RECURSIVE broaden(_, _)
broaden(parts, variants) ==
    IF variants = << >> THEN << >>
    ELSE (IF Head(variants) \notin Range(parts) THEN << Head(variants) >> ELSE << >>)
         \o broaden(parts, Tail(variants))

Broadened(parts, lowered, code, regional, regionalVariant, glob) ==
    IF lowered = << code >> \/ lowered = << regional >>
    THEN parts \o broaden(parts, << code, regionalVariant, glob >>)
    ELSE parts

EnsureAll(parts) ==
    IF "all" \notin Range(LowerAll(parts)) THEN Append(parts, "all") ELSE parts

RECURSIVE DedupInOrder(_, _)
DedupInOrder(parts, seen) ==
    IF parts = << >> THEN << >>
    ELSE IF Lower(Head(parts)) \in seen
         THEN DedupInOrder(Tail(parts), seen)
         ELSE << Head(parts) >> \o DedupInOrder(Tail(parts), seen \cup { Lower(Head(parts)) })

normalize_langs(s) ==
    IF s = << "" >> THEN DEFAULT_NORMALIZED
    ELSE LET p0 == SplitParts(s)
             lowered == LowerAll(p0)
             p1 == Broadened(p0, lowered, "nl", "nl-nl", "nl-NL", "*nl*")
             p2 == Broadened(p1, lowered, "fr", "fr-fr", "fr-FR", "*fr*")
             p3 == Broadened(p2, lowered, "de", "de-de", "de-DE", "*de*")
             p4 == Broadened(p3, lowered, "es", "es-es", "es-ES", "*es*")
         IN  DedupInOrder(EnsureAll(p4), {})

(***************************************************************************)
(* Inputs of normalize_langs                                               *)
(***************************************************************************)
RawParts == { "", " ", "en", "EN", " en", "nl", "nl-NL", "fr", "de-DE", "es",
              "all", "All", " all " }

SeqsUpTo(S, n) == UNION { [ 1..k -> S ] : k \in 1..n }

LangStrings == SeqsUpTo(RawParts, MaxParts)

(***************************************************************************)
(* The metadata source and the downloader (yt-dlp), as the code uses them.  *)
(* A language of a catalog is "absent" (no key), "nosrc" (a key, but none   *)
(* of its tracks has a usable source) or "src" (a retrievable track).       *)
(***************************************************************************)
LangCodes == { "de", "en" }

LangOrder == << "de", "en" >>

TrackStates == { "absent", "nosrc", "src" }

Catalogs == [ LangCodes -> TrackStates ]

NoPath == "None"

\* sorted(list(d.keys()))
SortedKeys(d) ==
    LET listed(l) == d[l] # "absent"
    IN  SelectSeq(LangOrder, listed)

\* --sub-langs: "all", or a pattern matched against the language, ignoring case
LangMatches(pattern, l) ==
    \/ Lower(pattern) = "all"
    \/ Lower(pattern) = Lower(l)
    \/ pattern \in { "en.*", "*en*" } /\ Lower(l) \in { "en", "en-us", "en-gb" }
    \/ pattern = "*nl*" /\ Lower(l) \in { "nl", "nl-nl" }
    \/ pattern = "*fr*" /\ Lower(l) \in { "fr", "fr-fr" }
    \/ pattern = "*de*" /\ Lower(l) \in { "de", "de-de" }
    \/ pattern = "*es*" /\ Lower(l) \in { "es", "es-es" }

CatalogOf(write_flag) ==
    IF write_flag = "--write-sub" THEN subtitles ELSE automatic_captions

\* the <id>.<lang>.srt files one download run leaves in the working directory
YtDlpWrites(write_flag, sub_langs) ==
    { l \in LangCodes : /\ CatalogOf(write_flag)[l] = "src"
                        /\ \E i \in 1..Len(sub_langs) : LangMatches(sub_langs[i], l) }

\* exit status of a download run: 0 when it wrote a track; when it found nothing
\* to write it either warns and exits 0 or fails
ExitCodes(write_flag, sub_langs) ==
    IF YtDlpWrites(write_flag, sub_langs) # {} THEN { 0 } ELSE { 0, 1 }

\* mutant: the exit status tested the wrong way round
NewestSrt_StatusInverted(rc, wd, written) ==
    IF rc = 0 \/ wd = {} THEN { NoPath } ELSE wd

\* srt_list sorted by st_mtime, newest first: the newest is a file this run wrote
\* when it wrote any (which of them depends on the write order and the clock's
\* granularity), else any older file
NewestSrt(rc, wd, written) ==
    IF rc # 0 \/ wd = {} THEN { NoPath }
    ELSE IF written # {} THEN written ELSE wd

\* mutant: field 0 of the stem, the video id
StemLang_VideoId(p) == "vid"

\* p.stem.split(".")[1] of <id>.<lang>.srt
StemLang(p) == p

ENGLISH_FALLBACK == << "en", "en-US", "en-GB", "en.*", "*en*" >>

Label(name, langs) == [ name |-> name, langs |-> langs ]

\* mutant: the two catch-all attempts in the other order
NextAttempt_ManualAllFirst(at) ==
    CASE at = "a1" -> "a2"
      [] at = "a2" -> "a3"
      [] at = "a3" -> "a4"
      [] at = "a4" -> "a5"
      [] at = "a5" -> "a7"
      [] at = "a7" -> "a6"
      [] at = "a6" -> "resolved"

\* the order of the attempt blocks of try_subs_with_discovery
NextAttempt(at) ==
    CASE at = "a1" -> "a2"
      [] at = "a2" -> "a3"
      [] at = "a3" -> "a4"
      [] at = "a4" -> "a5"
      [] at = "a5" -> "a6"
      [] at = "a6" -> "a7"
      [] at = "a7" -> "resolved"

\* mutant: the first block reports the kind of the second
CaptionsKind_FirstIsAuto(at) ==
    IF at \in { "a3", "a7" } THEN "manual" ELSE "auto"

\* captions_kind = "manual" / "auto" of each block
CaptionsKind(at) ==
    IF at \in { "a1", "a3", "a7" } THEN "manual" ELSE "auto"

AfterAttempt(at, p) == IF p # NoPath THEN "resolved" ELSE NextAttempt(at)

\* _run_attempt, and the "if p: ... return" that follows each call
RunAttempt(at, label, write_flag, sub_langs) ==
    \E rc \in ExitCodes(write_flag, sub_langs) :
        LET written == IF rc = 0 THEN YtDlpWrites(write_flag, sub_langs) ELSE {}
            wd == workdir \cup written
        IN  \E p \in NewestSrt(rc, wd, written) :
                /\ attempt_log' = Append(attempt_log,
                        [ label |-> label, rc |-> rc, write_flag |-> write_flag,
                          sub_langs |-> sub_langs ])
                /\ outcomes' = Append(outcomes, p)
                /\ workdir' = wd
                /\ pc' = AfterAttempt(at, p)
                /\ IF p # NoPath
                   THEN /\ srt_path' = p
                        /\ captions_kind' = CaptionsKind(at)
                        /\ captions_lang' = StemLang(p)
                   ELSE UNCHANGED << srt_path, captions_kind, captions_lang >>

attemptFrame == << user_langs, ordered, subtitles, automatic_captions, manual_langs,
                   auto_langs, meta_ok, pdf_bytes, status, detail, result, debug_resp,
                   FILE_STORE, issued, now, registered, resp, tpc, tloc >>

SkipAttempt(at) ==
    /\ pc' = NextAttempt(at)
    /\ UNCHANGED << attempt_log, outcomes, workdir, srt_path, captions_kind, captions_lang >>

ManualDiscovered ==
    /\ pc = "a1"
    /\ IF manual_langs # << >>
       THEN RunAttempt("a1", Label("manual/discovered", manual_langs), "--write-sub",
                       manual_langs)
       ELSE SkipAttempt("a1")
    /\ UNCHANGED attemptFrame

AutoDiscovered ==
    /\ pc = "a2"
    /\ IF auto_langs # << >>
       THEN RunAttempt("a2", Label("auto/discovered", auto_langs), "--write-auto-sub",
                       auto_langs)
       ELSE SkipAttempt("a2")
    /\ UNCHANGED attemptFrame

ManualRequested ==
    /\ pc = "a3"
    /\ RunAttempt("a3", Label("manual/requested", << >>), "--write-sub",
                  normalize_langs(user_langs))
    /\ UNCHANGED attemptFrame

AutoRequested ==
    /\ pc = "a4"
    /\ RunAttempt("a4", Label("auto/requested", << >>), "--write-auto-sub",
                  normalize_langs(user_langs))
    /\ UNCHANGED attemptFrame

AutoEnglishFallback ==
    /\ pc = "a5"
    /\ RunAttempt("a5", Label("auto/english-fallback", << >>), "--write-auto-sub",
                  ENGLISH_FALLBACK)
    /\ UNCHANGED attemptFrame

AutoAll ==
    /\ pc = "a6"
    /\ RunAttempt("a6", Label("auto/all", << >>), "--write-auto-sub", << "all" >>)
    /\ UNCHANGED attemptFrame

ManualAll ==
    /\ pc = "a7"
    /\ RunAttempt("a7", Label("manual/all", << >>), "--write-sub", << "all" >>)
    /\ UNCHANGED attemptFrame

(***************************************************************************)
(* The in-memory file store                                                *)
(***************************************************************************)
FILE_TTL_SECONDS == 2

Tokens == 1..NumTokens

EmptyStore == << >>

\* mutant: an entry is purged in the second it expires
Expired_AtExpiry(item, t) == item.exp <= t

\* v["exp"] < now, the test of _cleanup_files
Expired(item, t) == item.exp < t

\* item["exp"] < _now(), the test of get_file
ExpiredAtLookup(item, t) == item.exp < t

_cleanup_files(store, t) ==
    [ k \in { x \in DOMAIN store : ~Expired(store[x], t) } |-> store[k] ]

_store_file(store, token, content, mime, filename, t) ==
    (token :> [ content |-> content, mime |-> mime, filename |-> filename,
                exp |-> t + FILE_TTL_SECONDS ]) @@ store

FileUrl(token) == << "/file", token >>

(***************************************************************************)
(* POST /transcript and GET /debug/subs                                    *)
(***************************************************************************)
ReqLangStrings ==
    { << "" >>, << "en" >>, << "EN" >>, << "de", "en" >>, << "all", "de" >>, << "fr" >> }

discover_caption_langs(rc) ==
    IF rc # 0 THEN << << >>, << >> >>
    ELSE << SortedKeys(subtitles), SortedKeys(automatic_captions) >>

MetaVid == IF meta_ok THEN "meta_id" ELSE "vid"

TXT_MIME == "text/plain; charset=utf-8"

PDF_MIME == "application/pdf"

TranscriptBegin ==
    /\ pc = "idle"
    /\ \E langs \in ReqLangStrings, mok \in BOOLEAN :
          /\ user_langs' = langs
          /\ meta_ok' = mok
    /\ FILE_STORE' = _cleanup_files(FILE_STORE, now)
    /\ pc' = "discover"
    /\ UNCHANGED << ordered, subtitles, automatic_captions, manual_langs, auto_langs,
                    attempt_log, outcomes, workdir, srt_path, captions_lang,
                    captions_kind, pdf_bytes, status, detail, result, debug_resp,
                    issued, now, registered, resp, tpc, tloc >>

Discover ==
    /\ pc = "discover"
    /\ \E rc \in { 0, 1 } :
          /\ manual_langs' = discover_caption_langs(rc)[1]
          /\ auto_langs' = discover_caption_langs(rc)[2]
    /\ pc' = "a1"
    /\ UNCHANGED << user_langs, ordered, subtitles, automatic_captions, attempt_log,
                    outcomes, workdir, srt_path, captions_lang, captions_kind, meta_ok,
                    pdf_bytes, status, detail, result, debug_resp, FILE_STORE, issued,
                    now, registered, resp, tpc, tloc >>

NoSubtitles == srt_path = NoPath \/ srt_path \notin workdir

FailureDetail ==
    [ message |-> "Failed to obtain subtitles.",
      video_id_extracted |-> "vid",
      video_id_metadata |-> MetaVid,
      timedtext_probe |-> "tt",
      ytdlp_attempts |-> attempt_log ]

TranscriptFail ==
    /\ pc = "resolved"
    /\ NoSubtitles
    /\ status' = 404
    /\ detail' = FailureDetail
    /\ pc' = "done"
    /\ UNCHANGED << user_langs, ordered, subtitles, automatic_captions, manual_langs,
                    auto_langs, attempt_log, outcomes, workdir, srt_path, captions_lang,
                    captions_kind, meta_ok, pdf_bytes, result, debug_resp, FILE_STORE,
                    issued, now, registered, resp, tpc, tloc >>

\* the try/except around the PDF rendering: an exception leaves pdf_bytes = b""
RenderedPdf(rendered) == IF rendered THEN << "pdf", srt_path >> ELSE << >>

RenderPdf ==
    /\ pc = "resolved"
    /\ ~NoSubtitles
    /\ \E rendered \in BOOLEAN : pdf_bytes' = RenderedPdf(rendered)
    /\ pc' = "store"
    /\ UNCHANGED << user_langs, ordered, subtitles, automatic_captions, manual_langs,
                    auto_langs, attempt_log, outcomes, workdir, srt_path, captions_lang,
                    captions_kind, meta_ok, status, detail, result, debug_resp,
                    FILE_STORE, issued, now, registered, resp, tpc, tloc >>

\* str.replace("*", "x") on the tokens that hold a star
StarToX(p) ==
    CASE p = "*nl*" -> "xnlx"
      [] p = "*fr*" -> "xfrx"
      [] p = "*de*" -> "xdex"
      [] p = "*es*" -> "xesx"
      [] p = "*en*" -> "xenx"
      [] p = "en.*" -> "en.x"
      [] OTHER -> p

LangForName ==
    StarToX(IF captions_lang # "" THEN captions_lang
            ELSE IF user_langs # << "" >> THEN user_langs[1] ELSE "und")

\* mutant: the PDF is registered whatever the rendering left
HasPdf_Always(bytes) == TRUE

\* "if pdf_bytes:"
HasPdf(bytes) == bytes # << >>

StoreArtifacts ==
    /\ pc = "store"
    /\ \E txt_token \in Tokens \ issued :
       \E srt_token \in Tokens \ (issued \cup { txt_token }) :
          LET s1 == _store_file(FILE_STORE, txt_token, << "txt", srt_path >>, TXT_MIME,
                                << MetaVid, LangForName, "txt" >>, now)
              s2 == _store_file(s1, srt_token, << "srt", srt_path >>, TXT_MIME,
                                << MetaVid, LangForName, "srt" >>, now)
              body(pdf_url) ==
                  [ video_id |-> MetaVid,
                    captions_lang |-> captions_lang,
                    captions_kind |-> captions_kind,
                    requested_langs |-> normalize_langs(user_langs),
                    txt_http_url |-> FileUrl(txt_token),
                    srt_http_url |-> FileUrl(srt_token),
                    pdf_http_url |-> pdf_url,
                    links_expire_in_seconds |-> FILE_TTL_SECONDS ]
          IN  IF HasPdf(pdf_bytes)
              THEN \E pdf_token \in Tokens \ (issued \cup { txt_token, srt_token }) :
                      /\ FILE_STORE' = _store_file(s2, pdf_token, pdf_bytes, PDF_MIME,
                                                   << "transcript", MetaVid, "pdf" >>, now)
                      /\ issued' = issued \cup { txt_token, srt_token, pdf_token }
                      /\ result' = body(FileUrl(pdf_token))
              ELSE /\ FILE_STORE' = s2
                   /\ issued' = issued \cup { txt_token, srt_token }
                   /\ result' = body(<< >>)
    /\ status' = 200
    /\ pc' = "done"
    /\ UNCHANGED << user_langs, ordered, subtitles, automatic_captions, manual_langs,
                    auto_langs, attempt_log, outcomes, workdir, srt_path, captions_lang,
                    captions_kind, meta_ok, pdf_bytes, detail, debug_resp, now,
                    registered, resp, tpc, tloc >>

DebugSubs ==
    /\ pc = "idle"
    /\ \E rc \in { 0, 1 } :
          IF rc # 0
          THEN /\ status' = 400
               /\ UNCHANGED debug_resp
          ELSE /\ status' = 200
               /\ debug_resp' = [ subtitles_langs |-> SortedKeys(subtitles),
                                  automatic_langs |-> SortedKeys(automatic_captions) ]
    /\ pc' = "debug_done"
    /\ UNCHANGED << user_langs, ordered, subtitles, automatic_captions, manual_langs,
                    auto_langs, attempt_log, outcomes, workdir, srt_path, captions_lang,
                    captions_kind, meta_ok, pdf_bytes, detail, result, FILE_STORE,
                    issued, now, registered, resp, tpc, tloc >>

(***************************************************************************)
(* Initial values                                                          *)
(***************************************************************************)
NoThreads == << >>

IdleNorm == user_langs = << "" >> /\ ordered = << >>

IdleRequest ==
    /\ manual_langs = << >>
    /\ auto_langs = << >>
    /\ attempt_log = << >>
    /\ outcomes = << >>
    /\ workdir = {}
    /\ srt_path = NoPath
    /\ captions_lang = ""
    /\ captions_kind = ""
    /\ meta_ok = FALSE
    /\ pdf_bytes = << >>
    /\ status = 0
    /\ detail = << >>
    /\ result = << >>
    /\ debug_resp = << >>

IdleStore ==
    /\ FILE_STORE = EmptyStore
    /\ issued = {}
    /\ now = 0
    /\ registered = << >>
    /\ resp = << >>

IdleThreads == tpc = NoThreads /\ tloc = NoThreads

(***************************************************************************)
(* Spec: one request against a video whose catalog the metadata source     *)
(* reports                                                                 *)
(***************************************************************************)
Init ==
    /\ pc = "idle"
    /\ subtitles \in Catalogs
    /\ automatic_captions \in Catalogs
    /\ IdleNorm
    /\ IdleRequest
    /\ IdleStore
    /\ IdleThreads

Next ==
    \/ TranscriptBegin
    \/ Discover
    \/ ManualDiscovered
    \/ AutoDiscovered
    \/ ManualRequested
    \/ AutoRequested
    \/ AutoEnglishFallback
    \/ AutoAll
    \/ ManualAll
    \/ TranscriptFail
    \/ RenderPdf
    \/ StoreArtifacts
    \/ DebugSubs

Spec == Init /\ [][Next]_vars

(***************************************************************************)
(* SpecNorm: normalize_langs on every bounded input                        *)
(***************************************************************************)
Normalize ==
    /\ pc = "call"
    /\ ordered' = normalize_langs(user_langs)
    /\ pc' = "return"
    /\ UNCHANGED << user_langs, subtitles, automatic_captions >>
    /\ UNCHANGED << manual_langs, auto_langs, attempt_log, outcomes, workdir, srt_path,
                    captions_lang, captions_kind, meta_ok, pdf_bytes, status, detail,
                    result, debug_resp >>
    /\ UNCHANGED << storeVars, histVars, concVars >>

InitNorm ==
    /\ pc = "call"
    /\ user_langs \in LangStrings
    /\ ordered = << >>
    /\ subtitles = [ l \in LangCodes |-> "absent" ]
    /\ automatic_captions = [ l \in LangCodes |-> "absent" ]
    /\ IdleRequest
    /\ IdleStore
    /\ IdleThreads

NextNorm == Normalize

SpecNorm == InitNorm /\ [][NextNorm]_vars

(***************************************************************************)
(* SpecStore: the store under sequences of whole operations                *)
(***************************************************************************)
TxtArtifact == [ content |-> << "txt", "en" >>, mime |-> TXT_MIME,
                 filename |-> << "vid", "en", "txt" >> ]

SrtArtifact == [ content |-> << "srt", "en" >>, mime |-> TXT_MIME,
                 filename |-> << "vid", "en", "srt" >> ]

PdfArtifact == [ content |-> << "pdf", "en" >>, mime |-> PDF_MIME,
                 filename |-> << "transcript", "vid", "pdf" >> ]

Artifacts == { TxtArtifact, PdfArtifact }

Remember(hist, token, a, t) ==
    (token :> [ content |-> a.content, mime |-> a.mime, filename |-> a.filename,
                t0 |-> t ]) @@ hist

\* the answer of get_file once _cleanup_files has run: 404, or the item
get_file(store, token, t) ==
    IF token \notin DOMAIN store \/ ExpiredAtLookup(store[token], t)
    THEN [ token |-> token, t |-> t, status |-> 404, content |-> << >>, mime |-> "",
           filename |-> << >> ]
    ELSE [ token |-> token, t |-> t, status |-> 200, content |-> store[token].content,
           mime |-> store[token].mime, filename |-> store[token].filename ]

storeFrame == << pc, user_langs, ordered, subtitles, automatic_captions, manual_langs,
                 auto_langs, attempt_log, outcomes, workdir, srt_path, captions_lang,
                 captions_kind, meta_ok, pdf_bytes, status, detail, result, debug_resp >>

Tick ==
    /\ now < MaxTime
    /\ now' = now + 1
    /\ UNCHANGED << FILE_STORE, issued, registered, resp, tpc, tloc >>
    /\ UNCHANGED storeFrame

\* one _store_file call of a /transcript request (lines 463-466)
Register ==
    /\ Cardinality(issued) < MaxFiles
    /\ \E a \in Artifacts, token \in Tokens \ issued :
          /\ FILE_STORE' = _store_file(FILE_STORE, token, a.content, a.mime, a.filename,
                                       now)
          /\ issued' = issued \cup { token }
          /\ registered' = Remember(registered, token, a, now)
    /\ UNCHANGED << now, resp, tpc, tloc >>
    /\ UNCHANGED storeFrame

\* GET /health; the _cleanup_files() on entry of /transcript is the same step
Health ==
    /\ FILE_STORE' = _cleanup_files(FILE_STORE, now)
    /\ UNCHANGED << issued, now, registered, resp, tpc, tloc >>
    /\ UNCHANGED storeFrame

\* GET /file/{token}: the purge reads the clock, the expiry test reads it again
GetFile ==
    /\ \E token \in Tokens, d \in 0..1 :
          /\ now + d <= MaxTime
          /\ now' = now + d
          /\ FILE_STORE' = _cleanup_files(FILE_STORE, now)
          /\ resp' = [ known |-> token \in DOMAIN registered ]
                         @@ get_file(_cleanup_files(FILE_STORE, now), token, now + d)
    /\ UNCHANGED << issued, registered, tpc, tloc >>
    /\ UNCHANGED storeFrame

InitStore ==
    /\ pc = "serve"
    /\ user_langs = << "" >>
    /\ ordered = << >>
    /\ subtitles = [ l \in LangCodes |-> "absent" ]
    /\ automatic_captions = [ l \in LangCodes |-> "absent" ]
    /\ IdleRequest
    /\ IdleStore
    /\ IdleThreads

NextStore ==
    \/ Tick
    \/ Register
    \/ Health
    \/ GetFile

SpecStore == InitStore /\ [][NextStore]_vars

(***************************************************************************)
(* SpecConc: the handlers on the thread pool.  A dict operation (get, set,  *)
(* pop, one step of an iterator) is atomic under the interpreter lock; the  *)
(* threads may switch between any two of them.  _FILE_STORE has no lock.    *)
(***************************************************************************)
Threads == 1..NThreads

IdleLoc == [ op |-> "", t |-> 0, used |-> 0, pos |-> 0, expired |-> {},
             pending |-> << >>, status |-> 0 ]

concFrame == << pc, user_langs, ordered, subtitles, automatic_captions, manual_langs,
                auto_langs, attempt_log, outcomes, workdir, srt_path, captions_lang,
                captions_kind, meta_ok, pdf_bytes, status, detail, result, debug_resp,
                registered, resp >>

\* _cleanup_files, line 59 and the start of the comprehension of line 60: the clock is
\* read and the iterator over _FILE_STORE.items() remembers the size of the dict
StartScan(op, pending) ==
    [ IdleLoc EXCEPT !.op = op, !.pending = pending, !.t = now,
                     !.used = Cardinality(DOMAIN FILE_STORE) ]

BeginHealth(t) ==
    /\ tpc[t] = "idle"
    /\ tloc' = [ tloc EXCEPT ![t] = StartScan("health", << >>) ]
    /\ tpc' = [ tpc EXCEPT ![t] = "scan" ]
    /\ UNCHANGED << FILE_STORE, issued, now >>
    /\ UNCHANGED concFrame

BeginGetFile(t) ==
    /\ tpc[t] = "idle"
    /\ tloc' = [ tloc EXCEPT ![t] = StartScan("get_file", << >>) ]
    /\ tpc' = [ tpc EXCEPT ![t] = "scan" ]
    /\ UNCHANGED << FILE_STORE, issued, now >>
    /\ UNCHANGED concFrame

BeginTranscript(t) ==
    /\ tpc[t] = "idle"
    /\ \E pending \in { << TxtArtifact, SrtArtifact >>,
                        << TxtArtifact, SrtArtifact, PdfArtifact >> } :
          tloc' = [ tloc EXCEPT ![t] = StartScan("transcript", pending) ]
    /\ tpc' = [ tpc EXCEPT ![t] = "scan" ]
    /\ UNCHANGED << FILE_STORE, issued, now >>
    /\ UNCHANGED concFrame

AfterCleanup(op) ==
    CASE op = "health" -> "done"
      [] op = "get_file" -> "lookup"
      [] op = "transcript" -> "insert"

\* The entries of a dict lie in insertion order and SpecConc names the tokens in
\* their order of issue, so the iterator's position is the last token it yielded.
Unvisited(t) == { k \in DOMAIN FILE_STORE : k > tloc[t].pos }

Lowest(S) == CHOOSE k \in S : \A x \in S : k <= x

\* one step of the iteration of line 60: the iterator raises RuntimeError
\* ("dictionary changed size during iteration") when the dict's size is no longer
\* the one it remembered
ScanStep(t) ==
    /\ tpc[t] = "scan"
    /\ IF Cardinality(DOMAIN FILE_STORE) # tloc[t].used
       THEN /\ tpc' = [ tpc EXCEPT ![t] = "done" ]
            /\ tloc' = [ tloc EXCEPT ![t].status = 500 ]
       ELSE IF Unvisited(t) = {}
            THEN /\ tpc' = [ tpc EXCEPT ![t] = "pop" ]
                 /\ UNCHANGED tloc
            ELSE /\ LET k == Lowest(Unvisited(t))
                    IN  tloc' = [ tloc EXCEPT
                                    ![t].pos = k,
                                    ![t].expired =
                                        IF Expired(FILE_STORE[k], tloc[t].t)
                                        THEN @ \cup { k } ELSE @ ]
                 /\ UNCHANGED tpc
    /\ UNCHANGED << FILE_STORE, issued, now >>
    /\ UNCHANGED concFrame

\* lines 61-62: _FILE_STORE.pop(t, None) for each expired token, in list order
PopStep(t) ==
    /\ tpc[t] = "pop"
    /\ IF tloc[t].expired = {}
       THEN /\ tpc' = [ tpc EXCEPT ![t] = AfterCleanup(tloc[t].op) ]
            /\ tloc' = [ tloc EXCEPT ![t].status =
                                       IF tloc[t].op = "health" THEN 200 ELSE @ ]
            /\ UNCHANGED FILE_STORE
       ELSE /\ LET k == Lowest(tloc[t].expired)
               IN  /\ FILE_STORE' = [ x \in DOMAIN FILE_STORE \ { k } |-> FILE_STORE[x] ]
                   /\ tloc' = [ tloc EXCEPT ![t].expired = @ \ { k } ]
            /\ UNCHANGED tpc
    /\ UNCHANGED << issued, now >>
    /\ UNCHANGED concFrame

\* get_file, lines 361-369, for the token of the request's path
Lookup(t) ==
    /\ tpc[t] = "lookup"
    /\ \E token \in Tokens :
          tloc' = [ tloc EXCEPT ![t].status = get_file(FILE_STORE, token, now).status ]
    /\ tpc' = [ tpc EXCEPT ![t] = "done" ]
    /\ UNCHANGED << FILE_STORE, issued, now >>
    /\ UNCHANGED concFrame

\* transcript, lines 463-467: one _store_file call
Insert(t) ==
    /\ tpc[t] = "insert"
    /\ IF tloc[t].pending = << >>
       THEN /\ tpc' = [ tpc EXCEPT ![t] = "done" ]
            /\ tloc' = [ tloc EXCEPT ![t].status = 200 ]
            /\ UNCHANGED << FILE_STORE, issued >>
       ELSE /\ Tokens \ issued # {}
            /\ LET a == Head(tloc[t].pending)
                   token == Lowest(Tokens \ issued)
               IN  /\ FILE_STORE' = _store_file(FILE_STORE, token, a.content, a.mime,
                                                a.filename, now)
                   /\ issued' = issued \cup { token }
            /\ tloc' = [ tloc EXCEPT ![t].pending = Tail(@) ]
            /\ UNCHANGED tpc
    /\ UNCHANGED now
    /\ UNCHANGED concFrame

\* the response is sent and the thread goes back to the pool
Finish(t) ==
    /\ tpc[t] = "done"
    /\ tpc' = [ tpc EXCEPT ![t] = "idle" ]
    /\ tloc' = [ tloc EXCEPT ![t] = IdleLoc ]
    /\ UNCHANGED << FILE_STORE, issued, now >>
    /\ UNCHANGED concFrame

InitConc ==
    /\ pc = "serve"
    /\ user_langs = << "" >>
    /\ ordered = << >>
    /\ subtitles = [ l \in LangCodes |-> "absent" ]
    /\ automatic_captions = [ l \in LangCodes |-> "absent" ]
    /\ IdleRequest
    /\ IdleStore
    /\ tpc = [ t \in Threads |-> "idle" ]
    /\ tloc = [ t \in Threads |-> IdleLoc ]

NextConc ==
    \/ Tick
    \/ \E t \in Threads :
          \/ BeginHealth(t)
          \/ BeginGetFile(t)
          \/ BeginTranscript(t)
          \/ ScanStep(t)
          \/ PopStep(t)
          \/ Lookup(t)
          \/ Insert(t)
          \/ Finish(t)

SpecConc == InitConc /\ [][NextConc]_vars

(***************************************************************************)
(* Properties                                                              *)
(***************************************************************************)
Resolved == pc \in { "resolved", "store", "done" }

Retrievable(catalog) == { l \in LangCodes : catalog[l] = "src" }

Requested == normalize_langs(user_langs)

\* positions of the requested list whose token is not the wildcard and names,
\* ignoring case, a language of S
MatchingPositions(S) ==
    { i \in 1..Len(Requested) :
        /\ Lower(Requested[i]) # "all"
        /\ \E l \in S : Lower(l) = Lower(Requested[i]) }

FirstPosition(P) == CHOOSE i \in P : \A j \in P : i <= j

C2_MapUnchangedDuringScan ==
    [][ (\E t \in Threads : tpc[t] = "scan")
            => DOMAIN FILE_STORE' = DOMAIN FILE_STORE ]_vars

(* C3: when some non-wildcard token of the requested list names a language    *)
(* with a retrievable Manual or Auto track, the chosen track is in the        *)
(* language of the first such token.                                          *)
C3_FirstRequestedMatchChosen ==
    LET P == MatchingPositions(Retrievable(subtitles) \cup Retrievable(automatic_captions))
    IN  Resolved /\ P # {} =>
            /\ srt_path # NoPath
            /\ Lower(captions_lang) = Lower(Requested[FirstPosition(P)])

(* C3, amended: in that case a track is chosen, and it is a retrievable track *)
(* of the Manual catalog when that catalog has one, else of the Auto catalog; *)
(* its language need not be a requested one.                                  *)
C3_ChosenFromDiscoveredCatalog ==
    LET P == MatchingPositions(Retrievable(subtitles) \cup Retrievable(automatic_captions))
    IN  Resolved /\ P # {} =>
            /\ srt_path # NoPath
            /\ IF Retrievable(subtitles) # {}
               THEN captions_lang \in Retrievable(subtitles)
               ELSE captions_lang \in Retrievable(automatic_captions)

\* C3 witness: the only retrievable track is an Auto track in the requested language
C3_RequestedAutoChosen ==
    /\ pc = "done"
    /\ user_langs = << "de", "en" >>
    /\ Retrievable(subtitles) = {}
    /\ Retrievable(automatic_captions) = { "en" }
    /\ captions_lang = "en"
    /\ captions_kind = "auto"

(* C4: the requested list always holds the wildcard, and if the catalog has   *)
(* a retrievable Manual or Auto track then try_subs_with_discovery returns a  *)
(* subtitle file and /transcript does not answer 404.                         *)
C4_RetrievableTrackIsFound ==
    Resolved /\ Retrievable(subtitles) \cup Retrievable(automatic_captions) # {} =>
        /\ \E i \in 1..Len(Requested) : Lower(Requested[i]) = "all"
        /\ srt_path # NoPath
        /\ status # 404

\* C4 witness: discovery failed, nothing requested exists, the wildcard of the
\* requested list found the Auto track
C4_FoundByWildcard ==
    /\ pc = "done"
    /\ status = 200
    /\ user_langs = << "fr" >>
    /\ manual_langs = << >>
    /\ auto_langs = << >>
    /\ Retrievable(subtitles) = {}
    /\ Len(attempt_log) = 2
    /\ captions_kind = "auto"

\* requested languages with a retrievable Manual and a retrievable Auto track
RequestedInBoth ==
    { l \in Retrievable(subtitles) \cap Retrievable(automatic_captions) :
        \E i \in 1..Len(Requested) :
            Lower(Requested[i]) # "all" /\ Lower(Requested[i]) = Lower(l) }

(* C5: when a requested language has both a Manual and an Auto track, the     *)
(* result reports captions_kind "manual" and that language.                   *)
C5_ManualInRequestedLanguage ==
    Resolved /\ RequestedInBoth # {} =>
        /\ captions_kind = "manual"
        /\ captions_lang \in RequestedInBoth

(* C5, amended: in that case the result reports captions_kind "manual", never *)
(* "auto", and the language of a retrievable Manual track, which is the       *)
(* requested language when no other Manual track is retrievable.              *)
C5_ManualNeverAuto ==
    Resolved /\ RequestedInBoth # {} =>
        /\ captions_kind = "manual"
        /\ subtitles[captions_lang] = "src"
        /\ Retrievable(subtitles) = RequestedInBoth => captions_lang \in RequestedInBoth

\* C5 witness: Manual {en}, Auto {en}, preference "en"
C5_ManualEnOverAutoEn ==
    /\ pc = "done"
    /\ user_langs = << "en" >>
    /\ subtitles = [ l \in LangCodes |-> IF l = "en" THEN "src" ELSE "absent" ]
    /\ automatic_captions = [ l \in LangCodes |-> IF l = "en" THEN "src" ELSE "absent" ]
    /\ captions_kind = "manual"
    /\ captions_lang = "en"

\* the language lists the failure detail carries
CarriedLangLists(d) ==
    { d.ytdlp_attempts[i].sub_langs : i \in 1..Len(d.ytdlp_attempts) }

FilteredLangs(catalog) ==
    LET usable(l) == catalog[l] = "src"
    IN  SelectSeq(LangOrder, usable)

(* C6: the failure detail of /transcript carries the filtered Manual and Auto *)
(* language lists of the video and the preference list that was tried.        *)
C6_FailureCarriesLanguages ==
    status = 404 =>
        /\ FilteredLangs(subtitles) \in CarriedLangLists(detail)
        /\ FilteredLangs(automatic_captions) \in CarriedLangLists(detail)
        /\ Requested \in CarriedLangLists(detail)

(* C7: the language lists of discover_caption_langs and of /debug/subs hold   *)
(* no language whose every track lacks a usable source.                       *)
C7_NoSourcelessLanguageListed ==
    /\ \A l \in Range(manual_langs) : subtitles[l] = "src"
    /\ \A l \in Range(auto_langs) : automatic_captions[l] = "src"
    /\ debug_resp # << >> =>
          /\ \A l \in Range(debug_resp.subtitles_langs) : subtitles[l] = "src"
          /\ \A l \in Range(debug_resp.automatic_langs) : automatic_captions[l] = "src"

(* C8: once the captions were obtained the request succeeds whatever the PDF  *)
(* rendering did: the text and subtitle artifacts are in the store under the  *)
(* tokens of their links, and a failed rendering shows only as an empty       *)
(* pdf_http_url, with no PDF in the store.                                    *)
C8_PdfFailureNotFatal ==
    pc = "done" /\ srt_path # NoPath =>
        /\ status = 200
        /\ \E k \in DOMAIN FILE_STORE :
              /\ result.txt_http_url = FileUrl(k)
              /\ FILE_STORE[k].content = << "txt", srt_path >>
        /\ \E k \in DOMAIN FILE_STORE :
              /\ result.srt_http_url = FileUrl(k)
              /\ FILE_STORE[k].content = << "srt", srt_path >>
        /\ pdf_bytes = << >> =>
              /\ result.pdf_http_url = << >>
              /\ \A k \in DOMAIN FILE_STORE : FILE_STORE[k].mime # PDF_MIME

\* C8 witness: a successful request whose PDF rendering failed
C8_SucceededWithoutPdf ==
    /\ pc = "done"
    /\ status = 200
    /\ pdf_bytes = << >>
    /\ Cardinality(DOMAIN FILE_STORE) = 2

(* C9: the list returned by normalize_langs ends with the wildcard, which     *)
(* comes after every other token.                                             *)
C9_WildcardLast ==
    pc = "return" =>
        /\ Lower(ordered[Len(ordered)]) = "all"
        /\ \A i \in 1..(Len(ordered) - 1) : Lower(ordered[i]) # "all"

\* the order of the docstring of try_subs_with_discovery
DocumentedOrder ==
    << "manual/discovered", "auto/discovered", "manual/requested", "auto/requested",
       "auto/english-fallback", "auto/all", "manual/all" >>

DocumentedKind(name) ==
    IF name \in { "manual/discovered", "manual/requested", "manual/all" }
    THEN "manual" ELSE "auto"

Applicable(name) ==
    /\ name = "manual/discovered" => manual_langs # << >>
    /\ name = "auto/discovered" => auto_langs # << >>

ExpectedOrder == SelectSeq(DocumentedOrder, Applicable)

LogNames == [ i \in 1..Len(attempt_log) |-> attempt_log[i].label.name ]

(* C10: the attempts are made in the documented order, the discovered ones    *)
(* only for a non-empty discovered list; the log is a prefix of that order,   *)
(* only its last attempt can have succeeded, nothing is attempted after a     *)
(* success, captions_kind is the kind of the successful attempt, and None is  *)
(* returned only when every attempt of the order was made and failed.         *)
C10_AttemptsInDocumentedOrder ==
    pc \notin { "idle", "discover", "debug_done" } =>
        /\ Len(attempt_log) <= Len(ExpectedOrder)
        /\ LogNames = SubSeq(ExpectedOrder, 1, Len(attempt_log))
        /\ Len(outcomes) = Len(attempt_log)
        /\ \A i \in 1..(Len(outcomes) - 1) : outcomes[i] = NoPath
        /\ ~Resolved => srt_path = NoPath /\ \A i \in 1..Len(outcomes) : outcomes[i] = NoPath
        /\ Resolved /\ srt_path # NoPath =>
              /\ attempt_log # << >>
              /\ outcomes[Len(outcomes)] = srt_path
              /\ captions_kind = DocumentedKind(LogNames[Len(attempt_log)])
        /\ Resolved /\ srt_path = NoPath =>
              /\ LogNames = ExpectedOrder
              /\ \A i \in 1..Len(outcomes) : outcomes[i] = NoPath
              /\ captions_kind = ""

\* C10 witness: manual/discovered exited 0 without leaving a file, auto/discovered
\* succeeded and ended the attempts
C10_SecondAttemptSucceeded ==
    /\ pc = "done"
    /\ status = 200
    /\ LogNames = << "manual/discovered", "auto/discovered" >>
    /\ attempt_log[1].rc = 0
    /\ captions_kind = "auto"

====
